---- MODULE Spec2Model ----
(***************************************************************************)
(* Admission-control primitives of quickwit:                               *)
(*   - LoadShed / LoadShedFuture / LoadShedLayer                           *)
(*       (quickwit-common/src/tower/load_shed.rs)                          *)
(*   - SemaphoreWithMaxWaiters                                             *)
(*       (quickwit-ingest/src/semaphore_with_waiter.rs)                    *)
(* The limiter is explored by Spec, two limiters of one LoadShedLayer by   *)
(* LayerSpec, the gate by GateSpec (all of acquire's steps, abort          *)
(* included) and by GateFairSpec (no abort, fair wake-ups).                *)
(***************************************************************************)
EXTENDS Integers, Naturals, Sequences, FiniteSets, TLC

\* ---------------------------------------------------------------- bounds
MaxCapacity == 2
MaxHandles == 2
MaxPermits == 2
MaxMaxWaiters == 2
NumCallers == 3

Handles == 1..MaxHandles
\* one more future slot than the largest capacity, so that an admission
\* beyond the ceiling would be representable
Futs == 1..(MaxCapacity + 1)
Callers == 1..NumCallers

VARIABLES
    \* ---- LoadShed (load_shed.rs)
    max_in_flight_requests, \* LoadShedLayer.max_in_flight_requests
    permits,                \* available permits of the Arc<Semaphore> shared by all clones
    exists,                 \* exists[h]: handle h (the original or a clone) is alive
    permit_opt,             \* permit_opt[h]: h.permit_opt.is_some()
    last_ready,             \* last_ready[h]: what the most recent poll_ready on h returned
    fut,                    \* fut[f]: LoadShedFuture f: "none" | "pending" | "ready" (its poll returned Ready)
    inner_out,              \* what the wrapped service returned during the last step, "none" if the step did not invoke it
    \* ---- a second LoadShed, built by another layer() call on the same LoadShedLayer
    other_layered,          \* that second limiter has been built
    other_permits,          \* available permits of its own Arc<Semaphore>
    other_permit_opt,       \* its permit_opt.is_some()
    other_in_flight,        \* number of its LoadShedFuture values that exist
    \* ---- SemaphoreWithMaxWaiters (semaphore_with_waiter.rs)
    num_permits,            \* the num_permits the gate was built with
    max_num_waiters,        \* SemaphoreWithMaxWaiters.max_num_waiters
    gate_permits,           \* available permits of SemaphoreWithMaxWaiters.permits
    num_waiters,            \* SemaphoreWithMaxWaiters.num_waiters
    pc,                     \* pc[c]: where caller c stands inside acquire
    granted,                \* granted[c]: the semaphore has assigned a permit to the suspended caller c
    waitq,                  \* FIFO wait queue of SemaphoreWithMaxWaiters.permits
    \* ---- the operation performed by the last step
    op

lsVars == <<max_in_flight_requests, permits, exists, permit_opt, last_ready, fut, inner_out>>
gateVars == <<num_permits, max_num_waiters, gate_permits, num_waiters, pc, granted, waitq>>
otherVars == <<other_layered, other_permits, other_permit_opt, other_in_flight>>
vars == <<lsVars, otherVars, gateVars, op>>

Op(name, who, res) == [name |-> name, who |-> who, res |-> res]

\* ================================================================ LoadShed

\* try_acquire_owned that never refuses
try_acquire_owned_unbounded(avail) == [ok |-> TRUE, avail |-> avail - 1]

\* try_acquire_owned that refuses the last permit
try_acquire_owned_off_by_one(avail) ==
    IF avail > 1 THEN [ok |-> TRUE, avail |-> avail - 1]
                 ELSE [ok |-> FALSE, avail |-> avail]

\* Semaphore::try_acquire_owned: one permit if any is available, else an error
try_acquire_owned(avail) ==
    IF avail > 0 THEN [ok |-> TRUE, avail |-> avail - 1]
                 ELSE [ok |-> FALSE, avail |-> avail]

\* a permit drop that releases nothing
release_permit_leak(avail) == avail

\* Drop of an OwnedSemaphorePermit: one unit back to the pool
release_permit(avail) == avail + 1

\* what the wrapped service's poll_ready may answer
InnerReadiness == {"ok", "pending", "inner_err"}

\* what the wrapped service's future may answer when polled
InnerPoll == {"pending", "ready_ok", "ready_err"}

\* a derived Clone, copying the slot of the original
clone_permit_opt_copies(original_slot) == original_slot

\* the permit slot of a fresh clone
clone_permit_opt(original_slot) == FALSE

\* call reading the slot without emptying it
take_permit_opt_keeps(slot) == slot

\* the permit slot after call's permit_opt.take()
take_permit_opt(slot) == FALSE

\* poll releasing the permit itself when the inner future is ready
permits_after_poll_releases(avail, r) == IF r = "pending" THEN avail ELSE avail + 1

\* the pool after LoadShedFuture::poll returned r: poll only forwards to inner
permits_after_poll(avail, r) == avail

\* a future whose drop keeps the permit
permits_after_drop_future_leak(avail) == avail

\* the pool after a LoadShedFuture is dropped: its permit field is dropped with it
permits_after_drop_future(avail) == release_permit(avail)

\* the pool after call found the permit slot empty and panicked
permits_after_panic(avail) == avail

\* poll_ready with the is_none() test left out
draw_permit_always(slot, avail) == try_acquire_owned(avail)

\* poll_ready, lines 64-70: a permit is drawn from the pool only when the slot is empty
draw_permit(slot, avail) ==
    IF slot THEN [ok |-> TRUE, avail |-> avail]
            ELSE try_acquire_owned(avail)

\* a shed poll_ready that asked the wrapped service first
inner_on_shed_polled == InnerReadiness

\* what the wrapped service is asked when poll_ready sheds: nothing, the
\* return of line 68 comes before the delegation of line 71
inner_on_shed == {"none"}

\* a future turning the wrapped service's error into the load-shed error
poll_output_sheds(r) == IF r = "ready_err" THEN "overloaded" ELSE r

\* LoadShedFuture::poll, line 101: the output is the inner future's output
poll_output(r) == r

LiveFuts == {f \in Futs : fut[f] # "none"}
FreeFuts == {f \in Futs : fut[f] = "none"}
FreeHandles == {h \in Handles : ~exists[h]}
Lowest(S) == CHOOSE x \in S : \A y \in S : x <= y

\* LoadShedLayer::new(n).layer(service)
Layer(n) ==
    /\ max_in_flight_requests = n
    /\ permits = n
    /\ exists = [h \in Handles |-> h = 1]
    /\ permit_opt = [h \in Handles |-> FALSE]
    /\ last_ready = [h \in Handles |-> "none"]
    /\ fut = [f \in Futs |-> "none"]
    /\ inner_out = "none"

\* the gate is not part of the limiter's runs
GateUnused ==
    /\ num_permits = 0
    /\ max_num_waiters = 0
    /\ gate_permits = 0
    /\ num_waiters = 0
    /\ pc = [c \in Callers |-> "idle"]
    /\ granted = [c \in Callers |-> FALSE]
    /\ waitq = <<>>

\* no second layer() call has been made
OtherUnbuilt ==
    /\ other_layered = FALSE
    /\ other_permits = 0
    /\ other_permit_opt = FALSE
    /\ other_in_flight = 0

Init ==
    /\ \E n \in 0..MaxCapacity : Layer(n)
    /\ OtherUnbuilt
    /\ GateUnused
    /\ op = Op("layer", 0, "none")

\* LoadShed::poll_ready
poll_ready(h) ==
    /\ exists[h]
    /\ UNCHANGED <<max_in_flight_requests, exists, fut>>
    /\ UNCHANGED <<gateVars, otherVars>>
    /\ LET t == draw_permit(permit_opt[h], permits)
       IN IF ~t.ok
          THEN \* return Poll::Ready(Err(make_load_shed_error()))
               /\ UNCHANGED <<permits, permit_opt>>
               /\ inner_out' \in inner_on_shed
               /\ last_ready' = [last_ready EXCEPT ![h] = "overloaded"]
               /\ op' = Op("poll_ready", h, "overloaded")
          ELSE \* self.inner.poll_ready(cx)
               /\ permits' = t.avail
               /\ permit_opt' = [permit_opt EXCEPT ![h] = TRUE]
               /\ \E r \in InnerReadiness :
                    /\ inner_out' = r
                    /\ last_ready' = [last_ready EXCEPT ![h] = r]
                    /\ op' = Op("poll_ready", h, r)

\* LoadShed::call
call(h) ==
    /\ exists[h]
    /\ UNCHANGED <<max_in_flight_requests, exists, last_ready>>
    /\ UNCHANGED <<gateVars, otherVars>>
    /\ IF ~permit_opt[h]
       THEN \* expect("`poll_ready` should be called before `call`") panics
            /\ permits' = permits_after_panic(permits)
            /\ UNCHANGED <<permit_opt, fut>>
            /\ inner_out' = "none"
            /\ op' = Op("call", h, "panic")
       ELSE \* LoadShedFuture { inner: self.inner.call(request), permit }
            /\ FreeFuts # {}
            /\ permit_opt' = [permit_opt EXCEPT ![h] = take_permit_opt(permit_opt[h])]
            /\ fut' = [fut EXCEPT ![Lowest(FreeFuts)] = "pending"]
            /\ UNCHANGED permits
            /\ inner_out' = "future"
            /\ op' = Op("call", h, "forwarded")

\* LoadShedFuture::poll
LoadShedFuture_poll(f) ==
    /\ fut[f] = "pending"
    /\ UNCHANGED <<max_in_flight_requests, exists, permit_opt, last_ready>>
    /\ UNCHANGED <<gateVars, otherVars>>
    /\ \E r \in InnerPoll :
         /\ fut' = [fut EXCEPT ![f] = IF r = "pending" THEN "pending" ELSE "ready"]
         /\ permits' = permits_after_poll(permits, r)
         /\ inner_out' = r
         /\ op' = Op("poll", f, poll_output(r))

\* Drop of a LoadShedFuture, completed or not
drop_future(f) ==
    /\ fut[f] # "none"
    /\ UNCHANGED <<max_in_flight_requests, exists, permit_opt, last_ready>>
    /\ UNCHANGED <<gateVars, otherVars>>
    /\ fut' = [fut EXCEPT ![f] = "none"]
    /\ permits' = permits_after_drop_future(permits)
    /\ inner_out' = "none"
    /\ op' = Op("drop_future", f, IF fut[f] = "pending" THEN "abandoned" ELSE "completed")

\* impl Clone for LoadShed
clone(h) ==
    /\ exists[h]
    /\ FreeHandles # {}
    /\ UNCHANGED <<max_in_flight_requests, permits, fut>>
    /\ UNCHANGED <<gateVars, otherVars>>
    /\ LET n == Lowest(FreeHandles)
       IN /\ exists' = [exists EXCEPT ![n] = TRUE]
          /\ permit_opt' = [permit_opt EXCEPT ![n] = clone_permit_opt(permit_opt[h])]
          /\ last_ready' = [last_ready EXCEPT ![n] = "none"]
          /\ inner_out' = "none"
          /\ op' = Op("clone", h, "none")

\* Drop of a LoadShed handle: a permit left in permit_opt goes back to the pool
drop_handle(h) ==
    /\ exists[h]
    /\ UNCHANGED <<max_in_flight_requests, fut>>
    /\ UNCHANGED <<gateVars, otherVars>>
    /\ exists' = [exists EXCEPT ![h] = FALSE]
    /\ permits' = IF permit_opt[h] THEN release_permit(permits) ELSE permits
    /\ permit_opt' = [permit_opt EXCEPT ![h] = FALSE]
    /\ last_ready' = [last_ready EXCEPT ![h] = "none"]
    /\ inner_out' = "none"
    /\ op' = Op("drop_handle", h, "none")

Next ==
    \/ \E h \in Handles : poll_ready(h)
    \/ \E h \in Handles : call(h)
    \/ \E f \in Futs : LoadShedFuture_poll(f)
    \/ \E f \in Futs : drop_future(f)
    \/ \E h \in Handles : clone(h)
    \/ \E h \in Handles : drop_handle(h)

Spec == Init /\ [][Next]_vars

HeldSlots == {h \in Handles : exists[h] /\ permit_opt[h]}

\* ------------------------------------------------ a second layer() call

\* a layer that hands out what is left of the pool it created before
layer_permits_shared(n, avail) == avail

\* Layer::layer, line 128: Semaphore::new(self.max_in_flight_requests), a new
\* pool whatever the state of the pools created before
layer_permits(n, avail) == n

\* LoadShedLayer::layer called again on the same LoadShedLayer
layer ==
    /\ ~other_layered
    /\ UNCHANGED <<max_in_flight_requests, permits, exists, permit_opt, last_ready, fut>>
    /\ UNCHANGED gateVars
    /\ other_layered' = TRUE
    /\ other_permits' = layer_permits(max_in_flight_requests, permits)
    /\ other_permit_opt' = FALSE
    /\ other_in_flight' = 0
    /\ inner_out' = "none"
    /\ op' = Op("layer", 2, "none")

\* LoadShed::poll_ready on the second limiter
other_poll_ready ==
    /\ other_layered
    /\ UNCHANGED <<max_in_flight_requests, permits, exists, permit_opt, last_ready, fut>>
    /\ UNCHANGED gateVars
    /\ UNCHANGED <<other_layered, other_in_flight>>
    /\ LET t == draw_permit(other_permit_opt, other_permits)
       IN IF ~t.ok
          THEN /\ UNCHANGED <<other_permits, other_permit_opt>>
               /\ inner_out' \in inner_on_shed
               /\ op' = Op("other_poll_ready", 2, "overloaded")
          ELSE /\ other_permits' = t.avail
               /\ other_permit_opt' = TRUE
               /\ \E r \in InnerReadiness :
                    /\ inner_out' = r
                    /\ op' = Op("other_poll_ready", 2, r)

\* LoadShed::call on the second limiter
other_call ==
    /\ other_layered
    /\ UNCHANGED <<max_in_flight_requests, permits, exists, permit_opt, last_ready, fut>>
    /\ UNCHANGED gateVars
    /\ UNCHANGED other_layered
    /\ IF ~other_permit_opt
       THEN /\ other_permits' = permits_after_panic(other_permits)
            /\ UNCHANGED <<other_permit_opt, other_in_flight>>
            /\ inner_out' = "none"
            /\ op' = Op("other_call", 2, "panic")
       ELSE /\ other_permit_opt' = take_permit_opt(other_permit_opt)
            /\ other_in_flight' = other_in_flight + 1
            /\ UNCHANGED other_permits
            /\ inner_out' = "future"
            /\ op' = Op("other_call", 2, "forwarded")

\* Drop of a LoadShedFuture of the second limiter
other_drop_future ==
    /\ other_in_flight > 0
    /\ UNCHANGED <<max_in_flight_requests, permits, exists, permit_opt, last_ready, fut>>
    /\ UNCHANGED gateVars
    /\ UNCHANGED <<other_layered, other_permit_opt>>
    /\ other_in_flight' = other_in_flight - 1
    /\ other_permits' = permits_after_drop_future(other_permits)
    /\ inner_out' = "none"
    /\ op' = Op("other_drop_future", 2, "none")

\* two limiters of one LoadShedLayer, the first one used through its original handle
LayerNext ==
    \/ poll_ready(1)
    \/ call(1)
    \/ \E f \in Futs : LoadShedFuture_poll(f)
    \/ \E f \in Futs : drop_future(f)
    \/ layer
    \/ other_poll_ready
    \/ other_call
    \/ other_drop_future

LayerSpec == Init /\ [][LayerNext]_vars

\* ================================================= SemaphoreWithMaxWaiters

\* try_acquire that refuses the last permit
try_acquire_off_by_one(avail) ==
    IF avail > 1 THEN [ok |-> TRUE, avail |-> avail - 1]
                 ELSE [ok |-> FALSE, avail |-> avail]

\* Semaphore::try_acquire: one permit if any is available, else NoPermits
try_acquire(avail) ==
    IF avail > 0 THEN [ok |-> TRUE, avail |-> avail - 1]
                 ELSE [ok |-> FALSE, avail |-> avail]

\* the cap compared with > instead of >=
waiter_cap_reached_gt(nw, max) == nw > max

\* the cap check left out
waiter_cap_reached_never(nw, max) == FALSE

\* num_waiters.load(Acquire) >= max_num_waiters
waiter_cap_reached(nw, max) == nw >= max

\* num_waiters.fetch_add(1, Release)
fetch_add(nw) == nw + 1

\* the decrement left out
fetch_sub_forgotten(nw) == nw

\* num_waiters.fetch_sub(1, Release)
fetch_sub(nw) == nw - 1

\* num_waiters after a suspended acquire future is dropped: the fetch_sub
\* that follows the await is never reached
num_waiters_after_abort(nw) == nw

\* a release that ignores the wait queue
add_permits_no_wakeup(avail, q, g) == [avail |-> avail + 1, q |-> q, g |-> g]

\* a release that both wakes the first waiter and raises the available count
add_permits_double(avail, q, g) ==
    IF q = <<>>
    THEN [avail |-> avail + 1, q |-> q, g |-> g]
    ELSE [avail |-> avail + 1, q |-> Tail(q), g |-> [g EXCEPT ![Head(q)] = TRUE]]

\* a permit comes back to the semaphore: it is handed to the first queued
\* waiter, or added to the available count when nobody waits
add_permits(avail, q, g) ==
    IF q = <<>>
    THEN [avail |-> avail + 1, q |-> q, g |-> g]
    ELSE [avail |-> avail, q |-> Tail(q), g |-> [g EXCEPT ![Head(q)] = TRUE]]

\* the wait queue without caller c
Without(q, c) == SelectSeq(q, LAMBDA x : x # c)

\* the limiter is not part of the gate's runs
LoadShedUnused == Layer(0)

\* SemaphoreWithMaxWaiters::new(np, mw)
new(np, mw) ==
    /\ num_permits = np
    /\ max_num_waiters = mw
    /\ gate_permits = np
    /\ num_waiters = 0
    /\ pc = [c \in Callers |-> "idle"]
    /\ granted = [c \in Callers |-> FALSE]
    /\ waitq = <<>>

GateInit ==
    /\ \E np \in 0..MaxPermits : \E mw \in 0..MaxMaxWaiters : new(np, mw)
    /\ LoadShedUnused
    /\ OtherUnbuilt
    /\ op = Op("new", 0, "none")

\* acquire, line 46: self.permits.try_acquire()
acquire_try(c) ==
    /\ pc[c] = "idle"
    /\ UNCHANGED <<num_permits, max_num_waiters, num_waiters, granted, waitq>>
    /\ UNCHANGED <<lsVars, otherVars>>
    /\ LET t == try_acquire(gate_permits)
       IN /\ gate_permits' = t.avail
          /\ IF t.ok
             THEN /\ pc' = [pc EXCEPT ![c] = "holding"]
                  /\ op' = Op("acquire_try", c, "ok")
             ELSE /\ pc' = [pc EXCEPT ![c] = "no_permits"]
                  /\ op' = Op("acquire_try", c, "no_permits")

\* acquire, lines 57-59: the read of num_waiters and the comparison
acquire_load(c) ==
    /\ pc[c] = "no_permits"
    /\ UNCHANGED <<num_permits, max_num_waiters, gate_permits, num_waiters, granted, waitq>>
    /\ UNCHANGED <<lsVars, otherVars>>
    /\ IF waiter_cap_reached(num_waiters, max_num_waiters)
       THEN /\ pc' = [pc EXCEPT ![c] = "idle"]
            /\ op' = Op("acquire_load", c, "err")
       ELSE /\ pc' = [pc EXCEPT ![c] = "checked"]
            /\ op' = Op("acquire_load", c, "below_cap")

\* acquire, line 60: the increment, a separate atomic operation
acquire_fetch_add(c) ==
    /\ pc[c] = "checked"
    /\ UNCHANGED <<num_permits, max_num_waiters, gate_permits, granted, waitq>>
    /\ UNCHANGED <<lsVars, otherVars>>
    /\ num_waiters' = fetch_add(num_waiters)
    /\ pc' = [pc EXCEPT ![c] = "incremented"]
    /\ op' = Op("acquire_fetch_add", c, "none")

\* acquire, lines 61-64: first poll of self.permits.acquire(): takes a permit
\* if one is available, else queues the caller and suspends
acquire_await(c) ==
    /\ pc[c] = "incremented"
    /\ UNCHANGED <<num_permits, max_num_waiters, num_waiters, granted>>
    /\ UNCHANGED <<lsVars, otherVars>>
    /\ LET t == try_acquire(gate_permits)
       IN /\ gate_permits' = t.avail
          /\ IF t.ok
             THEN /\ pc' = [pc EXCEPT ![c] = "got_permit"]
                  /\ UNCHANGED waitq
                  /\ op' = Op("acquire_await", c, "ready")
             ELSE /\ pc' = [pc EXCEPT ![c] = "waiting"]
                  /\ waitq' = Append(waitq, c)
                  /\ op' = Op("acquire_await", c, "suspended")

\* acquire, lines 61-65: the suspended caller is woken with its permit
acquire_resume(c) ==
    /\ pc[c] = "waiting"
    /\ granted[c]
    /\ UNCHANGED <<num_permits, max_num_waiters, gate_permits, num_waiters, waitq>>
    /\ UNCHANGED <<lsVars, otherVars>>
    /\ granted' = [granted EXCEPT ![c] = FALSE]
    /\ pc' = [pc EXCEPT ![c] = "got_permit"]
    /\ op' = Op("acquire_resume", c, "none")

\* acquire, lines 66-67: the decrement, then Ok(permit)
acquire_fetch_sub(c) ==
    /\ pc[c] = "got_permit"
    /\ UNCHANGED <<num_permits, max_num_waiters, gate_permits, granted, waitq>>
    /\ UNCHANGED <<lsVars, otherVars>>
    /\ num_waiters' = fetch_sub(num_waiters)
    /\ pc' = [pc EXCEPT ![c] = "holding"]
    /\ op' = Op("acquire_fetch_sub", c, "ok")

\* Drop of the SemaphorePermit an acquire returned
drop_permit(c) ==
    /\ pc[c] = "holding"
    /\ UNCHANGED <<num_permits, max_num_waiters, num_waiters>>
    /\ UNCHANGED <<lsVars, otherVars>>
    /\ LET a == add_permits(gate_permits, waitq, granted)
       IN /\ gate_permits' = a.avail
          /\ waitq' = a.q
          /\ granted' = a.g
    /\ pc' = [pc EXCEPT ![c] = "idle"]
    /\ op' = Op("drop_permit", c, "none")

\* The acquire future is dropped while suspended at the await of line 64
\* (task abort, select!, timeout): the semaphore's Acquire future leaves the
\* queue, or gives back the permit already assigned to it
abort(c) ==
    /\ pc[c] = "waiting"
    /\ UNCHANGED <<num_permits, max_num_waiters>>
    /\ UNCHANGED <<lsVars, otherVars>>
    /\ IF granted[c]
       THEN LET a == add_permits(gate_permits, waitq, [granted EXCEPT ![c] = FALSE])
            IN /\ gate_permits' = a.avail
               /\ waitq' = a.q
               /\ granted' = a.g
       ELSE /\ waitq' = Without(waitq, c)
            /\ UNCHANGED <<gate_permits, granted>>
    /\ num_waiters' = num_waiters_after_abort(num_waiters)
    /\ pc' = [pc EXCEPT ![c] = "idle"]
    /\ op' = Op("abort", c, IF granted[c] THEN "granted" ELSE "queued")

GateNextNoAbort ==
    \/ \E c \in Callers : acquire_try(c)
    \/ \E c \in Callers : acquire_load(c)
    \/ \E c \in Callers : acquire_fetch_add(c)
    \/ \E c \in Callers : acquire_await(c)
    \/ \E c \in Callers : acquire_resume(c)
    \/ \E c \in Callers : acquire_fetch_sub(c)
    \/ \E c \in Callers : drop_permit(c)

GateNext ==
    \/ GateNextNoAbort
    \/ \E c \in Callers : abort(c)

GateSpec == GateInit /\ [][GateNext]_vars

\* the runtime polls a woken task, and a polled task runs to its next await
GateFairness ==
    \A c \in Callers : WF_vars(acquire_resume(c)) /\ WF_vars(acquire_fetch_sub(c))

GateFairSpec == GateInit /\ [][GateNextNoAbort]_vars /\ GateFairness

\* callers inside acquire that passed the cap check and did not increment yet
Racing == {c \in Callers : pc[c] = "checked"}
\* callers suspended inside acquire
Suspended == {c \in Callers : pc[c] = "waiting"}
\* callers owning a permit
Holders == {c \in Callers : pc[c] \in {"got_permit", "holding"} \/ (pc[c] = "waiting" /\ granted[c])}

\* ================================================================ properties

Existing == {h \in Handles : exists[h]}

\* C1: with capacity N, the number of LoadShedFuture values that exist is at
\* most N in every reachable state, jointly over the original handle and all
\* of its clones.
C1_InFlightCeiling == Cardinality(LiveFuts) <= max_in_flight_requests

\* the ceiling is reached while two handles share the pool
C1_Witness ==
    /\ max_in_flight_requests = 2
    /\ Cardinality(LiveFuts) = 2
    /\ Cardinality(Existing) = 2
    /\ permits = 0

\* C2: a poll_ready on a handle with an empty permit slot returns the
\* load-shed error at once when no permit is available, and takes a permit and
\* answers what the wrapped service answers when one is available; right after
\* an in-flight future is dropped a permit is available.
C2_ShedThenReadmit ==
    /\ [][\A h \in Handles :
            (op'.name = "poll_ready" /\ op'.who = h /\ ~permit_opt[h]) =>
                IF permits = 0
                THEN /\ op'.res = "overloaded"
                     /\ UNCHANGED <<permits, permit_opt, fut>>
                ELSE /\ permit_opt'[h]
                     /\ permits' = permits - 1
                     /\ op'.res \in InnerReadiness
                     /\ last_ready'[h] = op'.res]_vars
    /\ [](op.name = "drop_future" => permits > 0)

\* one of N in-flight futures was just dropped while a handle that was shed
\* holds no permit: its next poll_ready is the re-admission
C2_Witness ==
    /\ op.name = "drop_future"
    /\ max_in_flight_requests >= 1
    /\ permits = 1
    /\ Cardinality(LiveFuts) = max_in_flight_requests - 1
    /\ \E h \in Existing : ~permit_opt[h] /\ last_ready[h] = "overloaded"

\* C3: call on a handle whose permit slot is empty panics, forwards nothing to
\* the wrapped service and leaves the pool and the slots alone; call on a
\* handle holding a permit forwards the request and empties the slot, so one
\* admission authorises one call.
C3_TwoPhaseProtocol ==
    [][\A h \in Handles :
         (op'.name = "call" /\ op'.who = h) =>
             IF ~permit_opt[h]
             THEN /\ op'.res = "panic"
                  /\ UNCHANGED <<permits, permit_opt, fut>>
             ELSE /\ op'.res = "forwarded"
                  /\ ~permit_opt'[h]
                  /\ permits' = permits
                  /\ Cardinality(LiveFuts') = Cardinality(LiveFuts) + 1]_vars

\* a second call after one successful poll_ready: the admission was consumed
C3_Witness ==
    /\ op.name = "call"
    /\ op.res = "panic"
    /\ last_ready[op.who] = "ok"
    /\ LiveFuts # {}

\* C4: available permits + permits held in handles' slots + permits attached
\* to existing futures = N in every reachable state.
C4_PermitConservation ==
    permits + Cardinality(HeldSlots) + Cardinality(LiveFuts) = max_in_flight_requests

\* every future finished and dropped, no handle holds a permit: capacity is N again
C4_Witness ==
    /\ op.name = "drop_future"
    /\ max_in_flight_requests = 2
    /\ LiveFuts = {}
    /\ HeldSlots = {}
    /\ permits = max_in_flight_requests

\* C5: dropping a LoadShedFuture that has not completed returns its permit to
\* the pool, which then has a permit for a later poll_ready.
C5_AbandonReleases ==
    [][\A f \in Futs :
         (fut[f] = "pending" /\ fut'[f] = "none") =>
             /\ permits' = permits + 1
             /\ permits' > 0]_vars

\* a pending future was dropped and the pool has a permit again
C5_Witness ==
    /\ op.name = "drop_future"
    /\ op.res = "abandoned"
    /\ permits >= 1

\* C6 as stated: in the state right after LoadShedFuture::poll returns Ready
\* the pool's available count has already been incremented.
C6_Original ==
    [][\A f \in Futs :
         (fut[f] = "pending" /\ fut'[f] = "ready") =>
             permits' = permits + 1]_vars

\* C6 amended: LoadShedFuture::poll returning Ready leaves the pool unchanged,
\* the permit stays attached to the completed future; the permit is released
\* when that future is dropped.
C6_ReleasedOnDrop ==
    [][\A f \in Futs :
         /\ (fut[f] = "pending" /\ fut'[f] = "ready") =>
                permits' = permits
         /\ (fut[f] = "ready" /\ fut'[f] = "none") =>
                permits' = permits + 1]_vars

\* a completed future was dropped
C6_Witness ==
    /\ op.name = "drop_future"
    /\ op.res = "completed"
    /\ permits >= 1

\* C7 as stated: num_waiters never exceeds max_num_waiters.
C7_Original == num_waiters <= max_num_waiters

\* C7 amended: acquire calls that race between the read and the increment can
\* push num_waiters above max_num_waiters, by at most the number of concurrent
\* callers minus one; with max_num_waiters = 0 it stays 0.
C7_SoftCap ==
    /\ num_waiters >= 0
    /\ num_waiters <= max_num_waiters + NumCallers - 1
    /\ max_num_waiters = 0 => num_waiters = 0

\* two racing callers both passed the check and both incremented
C7_Witness ==
    /\ max_num_waiters >= 1
    /\ num_waiters > max_num_waiters
    /\ Cardinality(Suspended) >= 2

\* C8: aborting an acquire that is suspended waiting for a permit decrements
\* num_waiters by one.
C8_AbortDecrements ==
    [][\A c \in Callers :
         (op'.name = "abort" /\ op'.who = c /\ pc[c] = "waiting") =>
             num_waiters' = num_waiters - 1]_vars

\* C9: an acquire that found no permit and reads a waiter count at or above
\* max_num_waiters returns Err at once: it is not queued, and num_waiters and
\* the pool are unchanged; with max_num_waiters = 0 no caller is ever suspended.
C9_GateFull ==
    /\ [][\A c \in Callers :
            (op'.name = "acquire_load" /\ op'.who = c /\ pc[c] = "no_permits"
               /\ num_waiters >= max_num_waiters) =>
                /\ op'.res = "err"
                /\ pc'[c] = "idle"
                /\ UNCHANGED <<num_waiters, gate_permits, waitq, granted>>]_vars
    /\ [](max_num_waiters = 0 => Suspended = {})

\* a caller was rejected while another one is suspended at the cap
C9_Witness ==
    /\ op.name = "acquire_load"
    /\ op.res = "err"
    /\ pc[op.who] = "idle"
    /\ max_num_waiters >= 1
    /\ num_waiters >= max_num_waiters
    /\ Suspended # {}

Quiet == \A c \in Callers : pc[c] \in {"idle", "holding"}

\* C10: (no acquire is abandoned, woken tasks are scheduled) a suspended
\* acquire stays suspended until a permit is dropped; the drop hands the
\* permit to the first suspended caller, which eventually returns holding it;
\* once no acquire is in progress num_waiters is 0 again, and once every
\* permit is dropped a fresh acquire gets a permit on the fast path.
C10_WaiterCompletes ==
    /\ [][\A c \in Callers :
            /\ (pc[c] = "waiting" /\ ~granted[c] /\ op'.name # "drop_permit") =>
                   (pc'[c] = "waiting" /\ ~granted'[c])
            /\ (op'.name = "drop_permit" /\ pc[op'.who] = "holding"
                  /\ waitq # <<>> /\ Head(waitq) = c) =>
                   (granted'[c] /\ gate_permits' = gate_permits)
            /\ (op'.name = "acquire_try" /\ op'.who = c /\ pc[c] = "idle"
                  /\ gate_permits > 0) =>
                   (op'.res = "ok" /\ pc'[c] = "holding")]_vars
    /\ \A c \in Callers : (pc[c] = "waiting" /\ granted[c]) ~> (pc[c] = "holding")
    /\ [](Quiet => num_waiters = 0)
    /\ []((\A c \in Callers : pc[c] = "idle") => gate_permits = num_permits)

\* num_permits = 1, max_num_waiters = 1: the former waiter has just returned
\* with the permit and the waiter count is back to 0
C10_Witness ==
    /\ num_permits = 1
    /\ max_num_waiters = 1
    /\ op.name = "acquire_fetch_sub"
    /\ pc[op.who] = "holding"
    /\ num_waiters = 0
    /\ gate_permits = 0

\* C11: whenever a permit is free at the non-blocking attempt, acquire returns
\* holding a permit in that same step: the caller never reaches the read of
\* num_waiters, is not queued, and num_waiters is unchanged, whatever
\* max_num_waiters and num_waiters are.
C11_FastPath ==
    [][\A c \in Callers :
         (op'.name = "acquire_try" /\ op'.who = c /\ pc[c] = "idle" /\ gate_permits > 0) =>
             /\ op'.res = "ok"
             /\ pc'[c] = "holding"
             /\ gate_permits' = gate_permits - 1
             /\ UNCHANGED <<num_waiters, waitq, granted>>]_vars

\* the fast path was taken with max_num_waiters = 0 and a non-zero waiter count
C11_Witness ==
    /\ op.name = "acquire_try"
    /\ op.res = "ok"
    /\ pc[op.who] = "holding"
    /\ num_waiters >= 1
    /\ num_waiters >= max_num_waiters

\* callers between the fetch_add of line 60 and the fetch_sub of line 66
Counted == {c \in Callers : pc[c] \in {"incremented", "waiting", "got_permit"}}

C15_GatePermits ==
    /\ gate_permits + Cardinality(Holders) = num_permits
    /\ gate_permits \in 0..num_permits
    /\ Cardinality(Holders) <= num_permits
    /\ waitq # <<>> => gate_permits = 0

\* every permit is held, one of them by a caller that had to wait for it
C15_Witness ==
    /\ num_permits = 2
    /\ gate_permits = 0
    /\ Cardinality(Holders) = 2
    /\ op.name = "acquire_fetch_sub"

\* C12: clone yields a new handle with an empty permit slot even when the
\* original holds a permit; the pool, the futures and every existing handle's
\* slot are unchanged, so the clone has to do its own poll_ready before call.
C12_CloneStartsEmpty ==
    [][\A h, n \in Handles :
         (op'.name = "clone" /\ op'.who = h /\ ~exists[n] /\ exists'[n]) =>
             /\ ~permit_opt'[n]
             /\ last_ready'[n] = "none"
             /\ permits' = permits
             /\ fut' = fut
             /\ \A k \in Handles \ {n} : permit_opt'[k] = permit_opt[k] /\ exists'[k] = exists[k]]_vars

\* a handle holding a permit was just cloned; the clone holds none
C12_Witness ==
    /\ op.name = "clone"
    /\ permit_opt[op.who]
    /\ \E n \in Existing \ {op.who} : ~permit_opt[n] /\ last_ready[n] = "none"

\* C13 as stated: a handle's permit slot is non-empty only if the most recent
\* poll_ready on that handle returned Ready(Ok).
C13_Original ==
    \A h \in Existing : permit_opt[h] => last_ready[h] = "ok"

\* C13 amended: a handle's permit slot is non-empty only if the most recent
\* poll_ready on that handle was not shed, that is, it returned what the
\* wrapped service's poll_ready returned: Ready(Ok), Pending or the service's
\* error; after a shed poll_ready the slot is empty.
C13_HeldUnlessShed ==
    \A h \in Handles :
        /\ permit_opt[h] => (exists[h] /\ last_ready[h] \in InnerReadiness)
        /\ last_ready[h] \in {"overloaded", "none"} => ~permit_opt[h]

\* the permit is kept in the slot although the wrapped service answered with an error
C13_Witness ==
    \E h \in Existing : permit_opt[h] /\ last_ready[h] = "inner_err"

\* C16: a poll_ready that finds the pool exhausted while the handle holds no
\* permit is rejected without invoking the wrapped service, and leaves the
\* handle's slot, the pool and the futures unchanged.
C16_ShedTouchesNothing ==
    [][\A h \in Handles :
         (op'.name = "poll_ready" /\ op'.who = h /\ ~permit_opt[h] /\ permits = 0) =>
             /\ op'.res = "overloaded"
             /\ inner_out' = "none"
             /\ ~permit_opt'[h]
             /\ UNCHANGED <<permits, permit_opt, fut, exists>>]_vars

\* a handle was shed while the whole pool sits in another handle's slot
C16_Witness ==
    /\ op.name = "poll_ready"
    /\ op.res = "overloaded"
    /\ inner_out = "none"
    /\ permits = 0
    /\ LiveFuts = {}
    /\ HeldSlots # {}

\* C17: poll_ready on a handle whose slot is filled draws nothing from the
\* pool and only delegates to the wrapped service, so repeated poll_ready
\* calls on one handle hold one permit.
C17_NoSecondDraw ==
    [][\A h \in Handles :
         (op'.name = "poll_ready" /\ op'.who = h /\ permit_opt[h]) =>
             /\ permits' = permits
             /\ permit_opt' = permit_opt
             /\ op'.res \in InnerReadiness
             /\ inner_out' = op'.res]_vars

\* a single handle polled, one permit drawn, another one still available
C17_Witness ==
    /\ op.name = "poll_ready"
    /\ op.res = "pending"
    /\ Cardinality(Existing) = 1
    /\ permit_opt[op.who]
    /\ LiveFuts = {}
    /\ permits = 1
    /\ max_in_flight_requests = 2

\* C18: the load-shed error comes from poll_ready only, never from call or
\* from polling a LoadShedFuture, and what LoadShedFuture::poll returns is what
\* the wrapped service's future returned.
C18_OutcomeUnaltered ==
    /\ op.res = "overloaded" => op.name = "poll_ready"
    /\ op.name = "poll" => (op.res = inner_out /\ op.res \in InnerPoll)
    /\ op.name = "call" => op.res \in {"forwarded", "panic"}

\* the wrapped service's future failed and the caller got that failure
C18_Witness ==
    /\ op.name = "poll"
    /\ inner_out = "ready_err"
    /\ op.res = "ready_err"

\* C19: layer() returns a limiter whose own pool has exactly
\* max_in_flight_requests available permits and whose slot is empty, whatever
\* the state of a limiter built before; the two pools are independent: each
\* keeps its own count, no operation on one changes the other, and a limiter
\* sheds only when all of its own permits are out.
C19_FreshIndependentPools ==
    /\ [](op = Op("layer", 0, "none") =>
            (permits = max_in_flight_requests /\ HeldSlots = {} /\ LiveFuts = {}))
    /\ [](op = Op("layer", 2, "none") =>
            (other_permits = max_in_flight_requests /\ ~other_permit_opt /\ other_in_flight = 0))
    /\ [](other_layered =>
            other_permits + (IF other_permit_opt THEN 1 ELSE 0) + other_in_flight
                = max_in_flight_requests)
    /\ [](permits + Cardinality(HeldSlots) + Cardinality(LiveFuts) = max_in_flight_requests)
    /\ [][/\ op'.name \in {"poll_ready", "call", "poll", "drop_future"} =>
                UNCHANGED otherVars
          /\ op'.name \in {"layer", "other_poll_ready", "other_call", "other_drop_future"} =>
                UNCHANGED <<permits, permit_opt, fut>>
          /\ (op'.name = "other_poll_ready" /\ op'.res = "overloaded") =>
                other_in_flight = max_in_flight_requests
          /\ (op'.name = "poll_ready" /\ op'.res = "overloaded") =>
                Cardinality(LiveFuts) = max_in_flight_requests]_vars

\* the first limiter is saturated and the second one has just admitted a request
C19_Witness ==
    /\ max_in_flight_requests >= 1
    /\ permits = 0
    /\ Cardinality(LiveFuts) = max_in_flight_requests
    /\ op.name = "other_poll_ready"
    /\ op.res = "ok"
    /\ other_permit_opt

====
